---- MODULE Spec2Model ----
(***************************************************************************)
(* A model of libtorrent's src/storage_utils.cpp: the buffer-slice         *)
(* utilities copy_bufs and advance_bufs, the vectored piece I/O loop       *)
(* readwritev, and the storage relocation move_storage.                    *)
(*                                                                         *)
(* File indices, piece indices and offsets are 0-based as in the source;   *)
(* TLA+ sequences are 1-based, so file i of a layout f is f[i + 1].        *)
(* The model is of a build with TORRENT_USE_ASSERTS off: the assertions    *)
(* of the source are preconditions of the inputs, not steps.               *)
(***************************************************************************)
EXTENDS Integers, Sequences, FiniteSets, TLC

\* ------------------------------------------------------------------ bounds

\* files in a layout handed to readwritev
MaxFiles == 3
\* largest file size, in bytes
MaxFileSize == 2
\* elements of a buffer list
MaxBufs == 2
\* largest iov_len of one buffer
MaxBufLen == 2
\* the torrent-wide piece length
PieceLength == 2

\* ----------------------------------------------------------------- helpers

Min(a, b) == IF a < b THEN a ELSE b

Max(a, b) == IF a > b THEN a ELSE b

RECURSIVE SumSeq(_)
SumSeq(s) == IF s = <<>> THEN 0 ELSE Head(s) + SumSeq(Tail(s))

\* all sequences over S of length lo..hi
SeqsOf(S, lo, hi) == UNION {[1..k -> S] : k \in lo..hi}

\* --------------------------------------------------- buffer-slice utilities

\* an iovec_t: iov_base is the address of the first byte, iov_len the length
iovec(base, len) == [iov_base |-> base, iov_len |-> len]

\* bufs_size(): the total length of a buffer list
RECURSIVE bufs_size(_)
bufs_size(bufs) ==
    IF bufs = <<>> THEN 0 ELSE Head(bufs).iov_len + bufs_size(Tail(bufs))

\* the addresses a buffer list references, in order
RECURSIVE BytesOf(_)
BytesOf(bufs) ==
    IF bufs = <<>> THEN <<>>
    ELSE [k \in 1..Head(bufs).iov_len |-> Head(bufs).iov_base + k - 1]
         \o BytesOf(Tail(bufs))

\* the loop of copy_bufs: i is the 1-based position, size the running total,
\* target the elements written so far
RECURSIVE copy_bufs_loop(_, _, _, _, _)
copy_bufs_loop(bufs, bytes, i, size, target) ==
    LET t == Append(target, bufs[i])
        s == size + bufs[i].iov_len
    IN  IF s >= bytes
        THEN [t EXCEPT ![i].iov_len = @ - (s - bytes)]
        ELSE copy_bufs_loop(bufs, bytes, i + 1, s, t)

\* a copy_bufs that forgets to truncate the last element
copy_bufs_notrunc(bufs, bytes) ==
    LET RECURSIVE go(_, _)
        go(i, size) ==
            IF size + bufs[i].iov_len >= bytes THEN i
            ELSE go(i + 1, size + bufs[i].iov_len)
    IN  SubSeq(bufs, 1, go(1, 0))

\* copy_bufs(bufs, bytes, target): the first `returned count` elements of
\* target. Defined for bytes <= bufs_size(bufs) (the source reads past the
\* list otherwise); every use below satisfies it.
copy_bufs(bufs, bytes) == copy_bufs_loop(bufs, bytes, 1, 0, <<>>)

\* the loop of advance_bufs: size is the running total of dropped elements
RECURSIVE advance_bufs_loop(_, _, _)
advance_bufs_loop(bufs, bytes, size) ==
    LET s == size + Head(bufs).iov_len
    IN  IF s >= bytes
        THEN [bufs EXCEPT ![1] =
                iovec(@.iov_base + @.iov_len - (s - bytes), s - bytes)]
        ELSE advance_bufs_loop(Tail(bufs), bytes, s)

\* advance_bufs(bufs, bytes): the view left after consuming `bytes` bytes.
\* Defined for bytes <= bufs_size(bufs).
advance_bufs(bufs, bytes) == advance_bufs_loop(bufs, bytes, 0)

\* ------------------------------------------------------ virtual file layout
\* A layout (file_storage) is the sequence of its file sizes.

files_end_file(f) == Len(f)

files_file_size(f, i) == f[i + 1]

files_file_offset(f, i) == SumSeq(SubSeq(f, 1, i))

files_total_size(f) == SumSeq(f)

files_end_piece(f) == (files_total_size(f) + PieceLength - 1) \div PieceLength

\* the file holding global offset off: the one the assertions after the call
\* require, file_offset(i) <= off < file_offset(i) + file_size(i)
files_file_index_at_offset(f, off) ==
    CHOOSE i \in 0..(Len(f) - 1) :
        /\ off >= files_file_offset(f, i)
        /\ off < files_file_offset(f, i) + files_file_size(f, i)

\* the layout with its zero-length files deleted
StripEmpty(f) == SelectSeq(f, LAMBDA s : s > 0)

\* file i of f, renumbered in StripEmpty(f)
Renumber(f, i) == Cardinality({j \in 0..(i - 1) : f[j + 1] > 0})

\* --------------------------------------------------------------- readwritev

VARIABLES
    files,      \* readwritev: the layout (file_storage const& files)
    bufs,       \* readwritev: the caller's buffer list
    piece,      \* readwritev: the piece index
    offset,     \* readwritev: the offset in the piece
    rw,         \* readwritev: its locals, its error carrier and its result
    rws,        \* the same call, same file_op answers, on StripEmpty(files)
    cb          \* copy_bufs / advance_bufs applied to one buffer list

\* storage_error as constructed: no error code, file index -1
no_storage_error == [ec |-> FALSE, file |-> -1, operation |-> "none"]

rw_idle ==
    [pc |-> "idle", size |-> 0, file_index |-> 0, file_offset |-> 0,
     bytes_left |-> 0, current_buf |-> <<>>, ec |-> no_storage_error,
     ret |-> 0, calls |-> <<>>]

\* a file_bytes_left that is not clamped to the end of the current file
file_bytes_left_noclamp(f, file_index, file_offset, bytes_left) == bytes_left

\* lines 139-141 and 155-157: the bytes of this request that lie in the
\* current file
file_bytes_left_of(f, file_index, file_offset, bytes_left) ==
    IF file_offset + bytes_left > files_file_size(f, file_index)
    THEN Max(files_file_size(f, file_index) - file_offset, 0)
    ELSE bytes_left

\* an `if` in place of the `while` of line 145: at most one file is skipped
skip_one_file(f, file_index, file_offset, bytes_left, file_bytes_left) ==
    IF file_bytes_left # 0
    THEN [file_index |-> file_index, file_offset |-> file_offset,
          file_bytes_left |-> file_bytes_left, past_end |-> FALSE]
    ELSE IF file_index + 1 >= files_end_file(f)
    THEN [file_index |-> file_index + 1, file_offset |-> 0,
          file_bytes_left |-> 0, past_end |-> TRUE]
    ELSE [file_index |-> file_index + 1, file_offset |-> 0,
          file_bytes_left |->
              file_bytes_left_of(f, file_index + 1, 0, bytes_left),
          past_end |-> FALSE]

\* lines 145-158: the loop that skips over empty files. past_end is the
\* early return of line 153.
RECURSIVE skip_empty_files(_, _, _, _, _)
skip_empty_files(f, file_index, file_offset, bytes_left, file_bytes_left) ==
    IF file_bytes_left # 0
    THEN [file_index |-> file_index, file_offset |-> file_offset,
          file_bytes_left |-> file_bytes_left, past_end |-> FALSE]
    ELSE IF file_index + 1 >= files_end_file(f)
    THEN [file_index |-> file_index + 1, file_offset |-> 0,
          file_bytes_left |-> 0, past_end |-> TRUE]
    ELSE skip_empty_files(f, file_index + 1, 0, bytes_left,
            file_bytes_left_of(f, file_index + 1, 0, bytes_left))

\* lines 139-158: where the next file_op goes
next_file_op(f, st) ==
    skip_empty_files(f, st.file_index, st.file_offset, st.bytes_left,
        file_bytes_left_of(f, st.file_index, st.file_offset, st.bytes_left))

\* lines 107-128: the state on entry to the loop
readwritev_enter(f, b, p, o) ==
    LET size == bufs_size(b)
        torrent_offset == p * PieceLength + o
        file_index == files_file_index_at_offset(f, torrent_offset)
    IN  [pc |-> "loop", size |-> size, file_index |-> file_index,
         file_offset |-> torrent_offset - files_file_offset(f, file_index),
         bytes_left |-> size, current_buf |-> copy_bufs(b, size),
         ec |-> no_storage_error, ret |-> 0, calls |-> <<>>]

\* an error answered with the bytes transferred so far instead of -1
file_op_failed_count(st, call) ==
    [st EXCEPT !.pc = "done", !.ret = st.size - st.bytes_left,
               !.ec = [ec |-> TRUE, file |-> call.file_index,
                       operation |-> "file_op"],
               !.calls = Append(@, call)]

\* lines 164-166: file_op reported an error
file_op_failed(st, call) ==
    [st EXCEPT !.pc = "done", !.ret = -1,
               !.ec = [ec |-> TRUE, file |-> call.file_index,
                       operation |-> "file_op"],
               !.file_index = call.file_index,
               !.file_offset = call.file_offset,
               !.calls = Append(@, call)]

\* a loop without the end-of-file test of line 176: a zero transfer is
\* retried
file_op_done_retry(st, call) ==
    LET bytes_left == st.bytes_left - call.transferred
        moved == [st EXCEPT
                    !.current_buf = advance_bufs(@, call.transferred),
                    !.bytes_left = bytes_left,
                    !.file_index = call.file_index,
                    !.file_offset = call.file_offset + call.transferred,
                    !.calls = Append(@, call)]
    IN  IF bytes_left > 0 THEN moved
        ELSE [moved EXCEPT !.pc = "done", !.ret = st.size]

\* a loop without line 169: the cursor into the buffers is not advanced
file_op_done_noadvance(st, call) ==
    LET bytes_transferred == call.transferred
        bytes_left == st.bytes_left - bytes_transferred
        moved == [st EXCEPT
                    !.bytes_left = bytes_left,
                    !.file_index = call.file_index,
                    !.file_offset = call.file_offset + bytes_transferred,
                    !.calls = Append(@, call)]
    IN  IF bytes_transferred = 0
        THEN [moved EXCEPT !.pc = "done", !.ret = st.size - bytes_left,
                !.ec.file = IF call.bytes > 0 THEN call.file_index ELSE @]
        ELSE IF bytes_left > 0 THEN moved
        ELSE [moved EXCEPT !.pc = "done", !.ret = st.size]

\* a loop without line 170: the bytes transferred are not counted off
file_op_done_nocount(st, call) ==
    LET bytes_transferred == call.transferred
        moved == [st EXCEPT
                    !.current_buf = advance_bufs(@, bytes_transferred),
                    !.file_index = call.file_index,
                    !.file_offset = call.file_offset + bytes_transferred,
                    !.calls = Append(@, call)]
    IN  IF bytes_transferred = 0
        THEN [moved EXCEPT !.pc = "done", !.ret = st.size - st.bytes_left,
                !.ec.file = IF call.bytes > 0 THEN call.file_index ELSE @]
        ELSE moved

\* lines 168-187: file_op transferred call.transferred bytes
file_op_done(st, call) ==
    LET bytes_transferred == call.transferred
        bytes_left == st.bytes_left - bytes_transferred
        moved == [st EXCEPT
                    !.current_buf = advance_bufs(@, bytes_transferred),
                    !.bytes_left = bytes_left,
                    !.file_index = call.file_index,
                    !.file_offset = call.file_offset + bytes_transferred,
                    !.calls = Append(@, call)]
    IN  IF bytes_transferred = 0
        THEN [moved EXCEPT !.pc = "done", !.ret = st.size - bytes_left,
                !.ec.file = IF call.bytes > 0 THEN call.file_index ELSE @]
        ELSE IF bytes_left > 0 THEN moved
        ELSE [moved EXCEPT !.pc = "done", !.ret = st.size]

\* lines 137-187: one iteration of the while loop. resp is what file_op
\* answers: -1 an error, otherwise the bytes it can transfer (it transfers
\* at most what it is asked for).
readwritev_iter(f, st, resp) ==
    LET nx == next_file_op(f, st)
        tmp_buf == copy_bufs(st.current_buf, nx.file_bytes_left)
        call == [file_index |-> nx.file_index, file_offset |-> nx.file_offset,
                 bytes |-> nx.file_bytes_left, tmp_buf |-> tmp_buf,
                 transferred |-> IF resp < 0 THEN -1
                                 ELSE Min(resp, nx.file_bytes_left)]
    IN  IF nx.past_end
        THEN [st EXCEPT !.pc = "done", !.ret = st.size,
                        !.file_index = nx.file_index, !.file_offset = 0]
        ELSE IF resp < 0 THEN file_op_failed(st, call)
        ELSE file_op_done(st, call)

\* the layouts, the buffer lists and the requests the assertions of lines
\* 102-114 allow
Layouts == SeqsOf(0..MaxFileSize, 1, MaxFiles)

BufLists ==
    {[i \in 1..Len(l) |-> iovec(i * (MaxBufLen + 1), l[i])] :
        l \in SeqsOf(1..MaxBufLen, 1, MaxBufs)}

ValidRequest(f, p, o) ==
    /\ p >= 0 /\ p < files_end_piece(f)
    /\ o >= 0 /\ o < PieceLength
    /\ p * PieceLength + o < files_total_size(f)

\* ------------------------------------- copy_bufs and advance_bufs on a list

\* elements of a buffer list handed to copy_bufs and advance_bufs directly
MaxSliceBufs == 3

\* buffer lists with zero-length elements allowed, in separate memory regions
SliceLists ==
    {[i \in 1..Len(l) |-> iovec(i * (MaxBufLen + 1), l[i])] :
        l \in SeqsOf(0..MaxBufLen, 1, MaxSliceBufs)}

cb_idle == [pc |-> "none", B |-> <<>>, n |-> 0, take |-> <<>>, rest |-> <<>>]

\* ------------------------------------------------------------- move_storage

\* files in the layout handed to move_storage
NumMoveFiles == 3
\* filesystem primitives that may fail in one call, for a reason other than
\* the state of the file system
MaxFaults == 2

VARIABLES
    f,                      \* move_storage: the layout, a sequence of file paths
    destination_save_path,  \* move_storage: where to move to
    pf,                     \* the part file: <<>> for none, else its directory
    fs,                     \* the file system: path -> content, NoFile if absent
    dirs,                   \* the file system: the directories that exist
    mv                      \* move_storage: its locals, error carrier and result

\* A path is the sequence of its components; an absolute path starts "/".
NoFile == <<>>

save_path == <<"/", "src">>

\* the current working directory, which complete() resolves against
current_working_directory == <<"/", "cwd">>

is_complete(p) == p # <<>> /\ p[1] = "/"

complete(p) == IF is_complete(p) THEN p ELSE current_working_directory \o p

combine_path(lhs, rhs) == lhs \o rhs

has_parent_path(p) == Len(p) > 1

parent_path(p) == SubSeq(p, 1, Len(p) - 1)

\* d is p or a directory above p
IsPrefix(d, p) == Len(d) <= Len(p) /\ SubSeq(p, 1, Len(d)) = d

\* the directories above p, p excluded
Ancestors(p) == {SubSeq(p, 1, k) : k \in 1..(Len(p) - 1)}

files_file_path(l, i) == l[i + 1]

files_file_absolute_path(l, i) == is_complete(l[i + 1])

FileName(i) == "f" \o ToString(i)

\* the relative path of file i: at the root, one or two directories down
RelativePath(i) ==
    CASE i % 3 = 0 -> <<FileName(i)>>
      [] i % 3 = 1 -> <<"s", FileName(i)>>
      [] OTHER -> <<"s", "t", FileName(i)>>

AbsolutePath(i) == <<"/", "abs", FileName(i)>>

FileIndices == 0..(NumMoveFiles - 1)

old_path_of(l, i) == combine_path(save_path, files_file_path(l, i))

new_path_of(l, new_save_path, i) ==
    combine_path(new_save_path, files_file_path(l, i))

\* what stat_file() and exists() look at
path_exists(fsys, ds, p) == p \in ds \/ (p \in DOMAIN fsys /\ fsys[p] # NoFile)

\* error codes; "ok" is the cleared error_code
stat_error(fsys, ds, p) ==
    IF path_exists(fsys, ds, p) THEN "ok" ELSE "no_such_file_or_directory"

\* rename(2): the file leaves `from` and replaces whatever is at `to`
renamed(fsys, from, to) == [fsys EXCEPT ![to] = fsys[from], ![from] = NoFile]

copied(fsys, from, to) == [fsys EXCEPT ![to] = fsys[from]]

removed(fsys, p) == [fsys EXCEPT ![p] = NoFile]

\* one call of a filesystem primitive, as the log keeps it
fs_op(phase, op, file, from, to, err) ==
    [phase |-> phase, op |-> op, file |-> file, from |-> from, to |-> to,
     err |-> err]

mv_idle ==
    [pc |-> "idle", flags |-> "none", new_save_path |-> <<>>,
     ret |-> "no_error", i |-> 0, e |-> "ok",
     copied_files |-> [k \in FileIndices |-> FALSE],
     ec |-> [ec |-> "ok", file |-> -1, operation |-> "none"],
     subdirs |-> {}, status |-> "none", path |-> <<>>,
     faults |-> 0, ops |-> <<>>, fs0 |-> <<>>, dirs0 |-> {}, pf0 |-> <<>>]

MoveFlags == {"always_replace_files", "fail_if_exist", "dont_replace"}

\* a check that looks at the first file only
precheck_first_file(l, fsys, ds, new_save_path, i) ==
    LET p == new_path_of(l, new_save_path, 0)
        err == stat_error(fsys, ds, p)
    IN  IF files_file_absolute_path(l, 0) \/ err = "no_such_file_or_directory"
        THEN [hit |-> -1, err |-> "ok", ops |-> <<>>]
        ELSE [hit |-> 0, err |-> err,
              ops |-> <<fs_op("precheck", "stat", 0, p, <<>>, err)>>]

\* lines 208-221: the files stat-ed under the destination, up to the first
\* that exists; hit is its index, or -1
RECURSIVE precheck_files(_, _, _, _, _)
precheck_files(l, fsys, ds, new_save_path, i) ==
    IF i >= Len(l) THEN [hit |-> -1, err |-> "ok", ops |-> <<>>]
    ELSE IF files_file_absolute_path(l, i)
    THEN precheck_files(l, fsys, ds, new_save_path, i + 1)
    ELSE LET p == new_path_of(l, new_save_path, i)
             err == stat_error(fsys, ds, p)
             op == fs_op("precheck", "stat", i, p, <<>>, err)
         IN  IF err # "no_such_file_or_directory"
             THEN [hit |-> i, err |-> err, ops |-> <<op>>]
             ELSE LET rest == precheck_files(l, fsys, ds, new_save_path, i + 1)
                  IN  [rest EXCEPT !.ops = <<op>> \o @]

\* lines 196-223: entry, and the check of the fail_if_exist policy.
\* root_err is what the stat of the destination root answers.
move_storage_enter(st, l, fsys, ds, part, dest, flags, root_err) ==
    LET new_save_path == complete(dest)
        entered == [st EXCEPT !.pc = "mkdir", !.flags = flags,
                       !.new_save_path = new_save_path, !.ret = "no_error",
                       !.fs0 = fsys, !.dirs0 = ds, !.pf0 = part]
        root == fs_op("precheck", "stat", -1, new_save_path, <<>>, root_err)
        chk == precheck_files(l, fsys, ds, new_save_path, 0)
    IN  IF flags # "fail_if_exist" THEN entered
        ELSE IF root_err = "no_such_file_or_directory"
        THEN [entered EXCEPT !.ops = <<root>>]
        ELSE IF chk.hit < 0
        THEN [entered EXCEPT !.ops = <<root>> \o chk.ops]
        ELSE [entered EXCEPT
                !.ops = <<root>> \o chk.ops,
                !.ec = [ec |-> chk.err, file |-> chk.hit, operation |-> "stat"],
                !.pc = "done", !.status = "file_exist", !.path = save_path]

\* lines 225-248, the stat answering no_such_file: create_directories ran
\* and answered err
create_directories_done(st, err) ==
    LET op == <<fs_op("mkdir", "stat", -1, st.new_save_path, <<>>,
                      "no_such_file_or_directory"),
                fs_op("mkdir", "mkdir", -1, st.new_save_path, <<>>, err)>>
    IN  IF err # "ok"
        THEN [st EXCEPT !.ops = @ \o op, !.pc = "done",
                !.ec = [ec |-> err, file |-> -1, operation |-> "mkdir"],
                !.status = "fatal_disk_error", !.path = save_path]
        ELSE [st EXCEPT !.ops = @ \o op, !.pc = "move", !.i = 0]

\* lines 225-248, the stat answering err, not no_such_file
stat_root_done(st, err) ==
    LET op == fs_op("mkdir", "stat", -1, st.new_save_path, <<>>, err)
    IN  IF err # "ok"
        THEN [st EXCEPT !.ops = Append(@, op), !.pc = "done",
                !.ec = [ec |-> err, file |-> -1, operation |-> "stat"],
                !.status = "fatal_disk_error", !.path = save_path]
        ELSE [st EXCEPT !.ops = Append(@, op), !.pc = "move", !.i = 0]

\* the loop header of lines 256 and 341: ++i, and the phase that follows
\* the loop when i reaches end_file
next_file(st, l, after) ==
    [st EXCEPT !.i = @ + 1,
               !.pc = IF st.i + 1 >= Len(l) THEN after ELSE @]

\* lines 291-297: the loop is left with e set
move_failed(st, code, ops) ==
    [st EXCEPT !.e = code,
               !.ec = [ec |-> code, file |-> st.i, operation |-> "rename"],
               !.ops = @ \o ops, !.pc = "partfile"]

\* a policy test that never skips: every file is moved over its counterpart
skip_existing_never(st, there) == FALSE

\* line 264: under dont_replace a file whose destination exists is skipped
skip_existing(st, there) == st.flags = "dont_replace" /\ there

\* a loop that does not clear no_such_file_or_directory: a missing source
\* file fails the move
move_file_verdict_strict(err) ==
    IF err = "ok" THEN "moved"
    ELSE IF err \in {"invalid_argument", "permission_denied",
                     "no_such_file_or_directory"} THEN "failed"
    ELSE "copy"

\* a loop without the fall back to copy_file
move_file_verdict_nocopy(err) ==
    IF err = "ok" THEN "moved"
    ELSE IF err = "no_such_file_or_directory" THEN "ignored"
    ELSE "failed"

\* a loop that falls back to copy_file on every error but no_such_file
move_file_verdict_copy_any(err) ==
    IF err = "ok" THEN "moved"
    ELSE IF err = "no_such_file_or_directory" THEN "ignored"
    ELSE "copy"

\* lines 277-289: what the loop does with the error of move_file
move_file_verdict(err) ==
    IF err = "no_such_file_or_directory" THEN "ignored"
    ELSE IF err # "ok" /\ err # "invalid_argument" /\ err # "permission_denied"
    THEN "copy"
    ELSE IF err # "ok" THEN "failed"
    ELSE "moved"

\* a loop without the test of line 259: files with an absolute path are
\* moved like the others
move_every_file(st, l, fsys, ds, err, cerr) ==
    LET i == st.i
        old_path == old_path_of(l, i)
        new_path == new_path_of(l, st.new_save_path, i)
        mvop == fs_op("move", "rename", i, old_path, new_path, err)
        cpop == fs_op("move", "copy", i, old_path, new_path, cerr)
        nx == next_file(st, l, "partfile")
        verdict == move_file_verdict(err)
    IN  IF skip_existing(st, path_exists(fsys, ds, new_path))
        THEN [mv |-> [nx EXCEPT
                        !.ret = IF @ = "no_error" THEN "need_full_check" ELSE @],
              fs |-> fsys]
        ELSE IF verdict = "moved"
        THEN [mv |-> [nx EXCEPT !.ops = @ \o <<mvop>>],
              fs |-> renamed(fsys, old_path, new_path)]
        ELSE IF verdict = "ignored"
        THEN [mv |-> [nx EXCEPT !.ops = @ \o <<mvop>>], fs |-> fsys]
        ELSE IF verdict = "failed"
        THEN [mv |-> move_failed(st, err, <<mvop>>), fs |-> fsys]
        ELSE IF cerr = "ok"
        THEN [mv |-> [nx EXCEPT !.copied_files[i] = TRUE,
                                !.ops = @ \o <<mvop, cpop>>],
              fs |-> copied(fsys, old_path, new_path)]
        ELSE [mv |-> move_failed(st, cerr, <<mvop, cpop>>), fs |-> fsys]

\* lines 256-298: the iteration for file st.i. err is what move_file
\* answers and cerr what copy_file answers, where they are called.
move_one_file(st, l, fsys, ds, err, cerr) ==
    LET i == st.i
        old_path == old_path_of(l, i)
        new_path == new_path_of(l, st.new_save_path, i)
        ex == IF st.flags = "dont_replace"
              THEN <<fs_op("move", "exists", i, new_path, <<>>,
                           stat_error(fsys, ds, new_path))>>
              ELSE <<>>
        mvop == fs_op("move", "rename", i, old_path, new_path, err)
        cpop == fs_op("move", "copy", i, old_path, new_path, cerr)
        nx == next_file(st, l, "partfile")
        verdict == move_file_verdict(err)
    IN  IF files_file_absolute_path(l, i)
        THEN [mv |-> nx, fs |-> fsys]
        ELSE IF skip_existing(st, path_exists(fsys, ds, new_path))
        THEN [mv |-> [nx EXCEPT
                        !.ret = IF @ = "no_error" THEN "need_full_check" ELSE @,
                        !.ops = @ \o ex],
              fs |-> fsys]
        ELSE IF verdict = "moved"
        THEN [mv |-> [nx EXCEPT !.ops = @ \o ex \o <<mvop>>],
              fs |-> renamed(fsys, old_path, new_path)]
        ELSE IF verdict = "ignored"
        THEN [mv |-> [nx EXCEPT !.ops = @ \o ex \o <<mvop>>], fs |-> fsys]
        ELSE IF verdict = "failed"
        THEN [mv |-> move_failed(st, err, ex \o <<mvop>>), fs |-> fsys]
        ELSE IF cerr = "ok"
        THEN [mv |-> [nx EXCEPT !.copied_files[i] = TRUE,
                                !.ops = @ \o ex \o <<mvop, cpop>>],
              fs |-> copied(fsys, old_path, new_path)]
        ELSE [mv |-> move_failed(st, cerr, ex \o <<mvop, cpop>>), fs |-> fsys]

\* a part file that is moved whatever the loop over the files left in e
move_partfile_always(st, part, err) ==
    LET op == fs_op("partfile", "move_partfile", -1, part, st.new_save_path, err)
        tried == part # <<>>
        after == IF ~tried THEN st
                 ELSE IF err = "ok" THEN [st EXCEPT !.ops = Append(@, op)]
                 ELSE [st EXCEPT !.ops = Append(@, op), !.e = err,
                         !.ec = [ec |-> err, file |-> -1,
                                 operation |-> "partfile_move"]]
    IN  IF after.e # "ok" THEN [after EXCEPT !.pc = "rollback"]
        ELSE [after EXCEPT !.pc = "cleanup", !.i = 0]

\* lines 300-311: the part file is moved if no file failed and there is
\* one; err is what move_partfile answers. Then rollback or cleanup.
move_partfile_done(st, part, err) ==
    LET op == fs_op("partfile", "move_partfile", -1, part, st.new_save_path, err)
        tried == st.e = "ok" /\ part # <<>>
        after == IF ~tried THEN st
                 ELSE IF err = "ok" THEN [st EXCEPT !.ops = Append(@, op)]
                 ELSE [st EXCEPT !.ops = Append(@, op), !.e = err,
                         !.ec = [ec |-> err, file |-> -1,
                                 operation |-> "partfile_move"]]
    IN  IF after.e # "ok" THEN [after EXCEPT !.pc = "rollback"]
        ELSE [after EXCEPT !.pc = "cleanup", !.i = 0]

\* a rollback whose loop is `while (--i > 0)`: file 0 is left where it is
rollback_stops_early(st, l, fsys, err) ==
    LET i == st.i - 1
        old_path == old_path_of(l, i)
        new_path == new_path_of(l, st.new_save_path, i)
        op == fs_op("rollback", "rename", i, new_path, old_path, err)
    IN  IF i <= 0
        THEN [mv |-> [st EXCEPT !.i = i, !.pc = "done",
                        !.status = "fatal_disk_error", !.path = save_path],
              fs |-> fsys]
        ELSE IF files_file_absolute_path(l, i) \/ st.copied_files[i]
        THEN [mv |-> [st EXCEPT !.i = i], fs |-> fsys]
        ELSE [mv |-> [st EXCEPT !.i = i, !.ops = Append(@, op)],
              fs |-> IF err = "ok" THEN renamed(fsys, new_path, old_path)
                     ELSE fsys]

\* lines 314-331: `while (--i >= 0)` and the iteration for that file, or
\* the return after the loop. err is what move_file answers.
rollback_one_file(st, l, fsys, err) ==
    LET i == st.i - 1
        old_path == old_path_of(l, i)
        new_path == new_path_of(l, st.new_save_path, i)
        op == fs_op("rollback", "rename", i, new_path, old_path, err)
    IN  IF i < 0
        THEN [mv |-> [st EXCEPT !.i = i, !.pc = "done",
                        !.status = "fatal_disk_error", !.path = save_path],
              fs |-> fsys]
        ELSE IF files_file_absolute_path(l, i) \/ st.copied_files[i]
        THEN [mv |-> [st EXCEPT !.i = i], fs |-> fsys]
        ELSE [mv |-> [st EXCEPT !.i = i, !.ops = Append(@, op)],
              fs |-> IF err = "ok" THEN renamed(fsys, new_path, old_path)
                     ELSE fsys]

\* a cleanup that removes the source of every relocatable file, copied or not
cleanup_removes_all(st, l, fsys, err) ==
    LET i == st.i
        path == files_file_path(l, i)
        old_path == old_path_of(l, i)
        op == fs_op("cleanup", "remove", i, old_path, <<>>, err)
        nx == next_file(st, l, "prune")
        noted == [nx EXCEPT !.subdirs =
                    IF has_parent_path(path) THEN @ \cup {parent_path(path)}
                    ELSE @]
    IN  IF files_file_absolute_path(l, i) THEN [mv |-> nx, fs |-> fsys]
        ELSE [mv |-> [noted EXCEPT !.ops = Append(@, op)],
              fs |-> IF err = "ok" THEN removed(fsys, old_path) ELSE fsys]

\* lines 341-360: the iteration for file st.i. err is what remove answers.
cleanup_one_file(st, l, fsys, err) ==
    LET i == st.i
        path == files_file_path(l, i)
        old_path == old_path_of(l, i)
        op == fs_op("cleanup", "remove", i, old_path, <<>>, err)
        nx == next_file(st, l, "prune")
        noted == [nx EXCEPT !.subdirs =
                    IF has_parent_path(path) THEN @ \cup {parent_path(path)}
                    ELSE @]
    IN  IF files_file_absolute_path(l, i) THEN [mv |-> nx, fs |-> fsys]
        ELSE IF st.copied_files[i] = FALSE THEN [mv |-> noted, fs |-> fsys]
        ELSE [mv |-> [noted EXCEPT !.ops = Append(@, op)],
              fs |-> IF err = "ok" THEN removed(fsys, old_path) ELSE fsys]

\* what remove() answers for a directory: it must exist and be empty
remove_dir_error(fsys, ds, d) ==
    IF d \notin ds THEN "no_such_file_or_directory"
    ELSE IF \/ \E p \in DOMAIN fsys : fsys[p] # NoFile /\ IsPrefix(d, p)
            \/ \E c \in ds : c # d /\ IsPrefix(d, c)
    THEN "directory_not_empty"
    ELSE "ok"

\* a walk that does not stop at save_path, only at the first error
RECURSIVE prune_up_past_root(_, _, _)
prune_up_past_root(fsys, acc, subdir) ==
    IF subdir = <<>> THEN acc
    ELSE LET err == remove_dir_error(fsys, acc.dirs, subdir)
             op == fs_op("prune", "remove", -1, subdir, <<>>, err)
         IN  IF err # "ok" THEN [acc EXCEPT !.ops = Append(@, op)]
             ELSE prune_up_past_root(fsys,
                    [dirs |-> acc.dirs \ {subdir}, ops |-> Append(acc.ops, op)],
                    parent_path(subdir))

\* lines 367-371: remove subdir and walk up, to save_path or the first error
RECURSIVE prune_up(_, _, _)
prune_up(fsys, acc, subdir) ==
    IF subdir = save_path THEN acc
    ELSE LET err == remove_dir_error(fsys, acc.dirs, subdir)
             op == fs_op("prune", "remove", -1, subdir, <<>>, err)
         IN  IF err # "ok" THEN [acc EXCEPT !.ops = Append(@, op)]
             ELSE prune_up(fsys,
                    [dirs |-> acc.dirs \ {subdir}, ops |-> Append(acc.ops, op)],
                    parent_path(subdir))

\* lines 362-372: every directory of subdirs, in the order of the std::set
\* (a directory before those below it)
RECURSIVE prune_all(_, _, _)
prune_all(fsys, acc, subdirs) ==
    IF subdirs = {} THEN acc
    ELSE LET s == CHOOSE x \in subdirs : \A y \in subdirs : Len(x) <= Len(y)
         IN  prune_all(fsys, prune_up(fsys, acc, combine_path(save_path, s)),
                       subdirs \ {s})

\* lines 362-374: the pruning and the return
prune_and_return(st, fsys, ds) ==
    LET r == prune_all(fsys, [dirs |-> ds, ops |-> st.ops], st.subdirs)
    IN  [mv |-> [st EXCEPT !.ops = r.ops, !.pc = "done", !.status = st.ret,
                           !.path = st.new_save_path],
         dirs |-> r.dirs]

\* what a primitive can answer beyond what the file system decides: a fault,
\* if the budget allows n more
CanFault(st, n) == st.faults + n <= MaxFaults

Faulty(S) == Cardinality({e \in S : e \notin {"ok", "no_such_file_or_directory"}})

\* a caller enters move_storage: lines 196-223
Call ==
    /\ mv.pc = "idle"
    /\ \E flags \in MoveFlags :
        \E root_err \in {stat_error(fs, dirs, complete(destination_save_path))}
                \cup (IF flags = "fail_if_exist" /\ CanFault(mv, 1)
                      THEN {"permission_denied"} ELSE {}) :
            mv' = [move_storage_enter(mv, f, fs, dirs, pf,
                        destination_save_path, flags, root_err)
                   EXCEPT !.faults = @ + (IF root_err = "permission_denied"
                                          THEN 1 ELSE 0)]
    /\ UNCHANGED <<files, bufs, piece, offset, rw, rws, cb>>
    /\ UNCHANGED <<f, destination_save_path, pf, fs, dirs>>

\* lines 225-248: the destination root is stat-ed and created if missing
EnsureDirectory ==
    /\ mv.pc = "mkdir"
    /\ \/ /\ ~path_exists(fs, dirs, mv.new_save_path)
          /\ \E err \in {"ok"} \cup (IF CanFault(mv, 1)
                                     THEN {"permission_denied"} ELSE {}) :
                /\ mv' = [create_directories_done(mv, err)
                          EXCEPT !.faults = @ + (IF err = "ok" THEN 0 ELSE 1)]
                /\ dirs' = IF err = "ok"
                           THEN dirs \cup {mv.new_save_path}
                                     \cup Ancestors(mv.new_save_path)
                           ELSE dirs
       \/ /\ \E err \in (IF path_exists(fs, dirs, mv.new_save_path)
                         THEN {"ok"} ELSE {})
                    \cup (IF CanFault(mv, 1) THEN {"permission_denied"} ELSE {}) :
                mv' = [stat_root_done(mv, err)
                       EXCEPT !.faults = @ + (IF err = "ok" THEN 0 ELSE 1)]
          /\ dirs' = dirs
    /\ UNCHANGED <<files, bufs, piece, offset, rw, rws, cb>>
    /\ UNCHANGED <<f, destination_save_path, pf, fs>>

\* what move_file and copy_file can answer for file mv.i
MoveOutcomes ==
    IF \/ files_file_absolute_path(f, mv.i)
       \/ skip_existing(mv, path_exists(fs, dirs,
                new_path_of(f, mv.new_save_path, mv.i)))
    THEN {<<"ok", "ok">>}
    ELSE IF fs[old_path_of(f, mv.i)] = NoFile
    THEN {<<"no_such_file_or_directory", "ok">>}
    ELSE {<<"ok", "ok">>}
         \cup (IF CanFault(mv, 1)
               THEN {<<"invalid_argument", "ok">>, <<"permission_denied", "ok">>,
                     <<"cross_device", "ok">>}
               ELSE {})
         \cup (IF CanFault(mv, 2) THEN {<<"cross_device", "io_error">>} ELSE {})

\* lines 256-298: one iteration of the loop over the files
MoveFile ==
    /\ mv.pc = "move"
    /\ \E o \in MoveOutcomes :
        LET r == move_one_file(mv, f, fs, dirs, o[1], o[2])
        IN  /\ mv' = [r.mv EXCEPT !.faults = @ + Faulty({o[1]}) + Faulty({o[2]})]
            /\ fs' = r.fs
    /\ UNCHANGED <<files, bufs, piece, offset, rw, rws, cb>>
    /\ UNCHANGED <<f, destination_save_path, pf, dirs>>

\* lines 300-311: the part file
MovePartfile ==
    /\ mv.pc = "partfile"
    /\ \E err \in {"ok"} \cup (IF mv.e = "ok" /\ pf # <<>> /\ CanFault(mv, 1)
                               THEN {"io_error"} ELSE {}) :
        /\ mv' = [move_partfile_done(mv, pf, err)
                  EXCEPT !.faults = @ + (IF err = "ok" THEN 0 ELSE 1)]
        /\ pf' = IF mv.e = "ok" /\ pf # <<>> /\ err = "ok"
                 THEN mv.new_save_path ELSE pf
    /\ UNCHANGED <<files, bufs, piece, offset, rw, rws, cb>>
    /\ UNCHANGED <<f, destination_save_path, fs, dirs>>

\* what the move_file of a rollback can answer for file mv.i - 1
RollbackOutcomes ==
    IF mv.i - 1 < 0 \/ files_file_absolute_path(f, mv.i - 1)
       \/ mv.copied_files[mv.i - 1]
    THEN {"ok"}
    ELSE IF fs[new_path_of(f, mv.new_save_path, mv.i - 1)] = NoFile
    THEN {"no_such_file_or_directory"}
    ELSE {"ok"} \cup (IF CanFault(mv, 1) THEN {"permission_denied"} ELSE {})

\* lines 314-331: one iteration of the rollback, or its return
Rollback ==
    /\ mv.pc = "rollback"
    /\ \E err \in RollbackOutcomes :
        LET r == rollback_one_file(mv, f, fs, err)
        IN  /\ mv' = [r.mv EXCEPT !.faults = @ + Faulty({err})]
            /\ fs' = r.fs
    /\ UNCHANGED <<files, bufs, piece, offset, rw, rws, cb>>
    /\ UNCHANGED <<f, destination_save_path, pf, dirs>>

\* lines 341-360: one iteration of the cleanup
Cleanup ==
    /\ mv.pc = "cleanup"
    /\ \E err \in {"ok"} \cup (IF /\ ~files_file_absolute_path(f, mv.i)
                                  /\ mv.copied_files[mv.i] /\ CanFault(mv, 1)
                               THEN {"permission_denied"} ELSE {}) :
        LET r == cleanup_one_file(mv, f, fs, err)
        IN  /\ mv' = [r.mv EXCEPT !.faults = @ + Faulty({err})]
            /\ fs' = r.fs
    /\ UNCHANGED <<files, bufs, piece, offset, rw, rws, cb>>
    /\ UNCHANGED <<f, destination_save_path, pf, dirs>>

\* lines 362-374: the pruning of the source directories, and the return
Prune ==
    /\ mv.pc = "prune"
    /\ LET r == prune_and_return(mv, fs, dirs)
       IN  mv' = r.mv /\ dirs' = r.dirs
    /\ UNCHANGED <<files, bufs, piece, offset, rw, rws, cb>>
    /\ UNCHANGED <<f, destination_save_path, pf, fs>>

\* ------------------------------------------- the actions of the other calls

\* a caller enters readwritev
Enter ==
    /\ rw.pc = "idle"
    /\ \E b \in BufLists, p \in 0..(MaxFiles * MaxFileSize),
          o \in 0..(PieceLength - 1) :
        /\ ValidRequest(files, p, o)
        /\ bufs' = b /\ piece' = p /\ offset' = o
        /\ rw' = readwritev_enter(files, b, p, o)
        /\ rws' = readwritev_enter(StripEmpty(files), b, p, o)
    /\ UNCHANGED <<files, cb>>
    /\ UNCHANGED <<f, destination_save_path, pf, fs, dirs, mv>>

\* one iteration of the loop, with file_op's answer
Iterate ==
    /\ rw.pc = "loop"
    /\ \E resp \in (-1)..next_file_op(files, rw).file_bytes_left :
        /\ rw' = readwritev_iter(files, rw, resp)
        /\ rws' = IF rws.pc = "loop"
                  THEN readwritev_iter(StripEmpty(files), rws, resp)
                  ELSE rws
    /\ UNCHANGED <<files, bufs, piece, offset, cb>>
    /\ UNCHANGED <<f, destination_save_path, pf, fs, dirs, mv>>

\* copy_bufs(B, n, target)
Take ==
    /\ cb.pc = "start"
    /\ cb' = [cb EXCEPT !.pc = "taken", !.take = copy_bufs(cb.B, cb.n)]
    /\ UNCHANGED <<files, bufs, piece, offset, rw, rws>>
    /\ UNCHANGED <<f, destination_save_path, pf, fs, dirs, mv>>

\* advance_bufs(B, n), after the copy (it moves B's front element in place)
Advance ==
    /\ cb.pc = "taken"
    /\ cb' = [cb EXCEPT !.pc = "advanced", !.rest = advance_bufs(cb.B, cb.n)]
    /\ UNCHANGED <<files, bufs, piece, offset, rw, rws>>
    /\ UNCHANGED <<f, destination_save_path, pf, fs, dirs, mv>>

\* ------------------------------------------------------- the specifications

vars == <<files, bufs, piece, offset, rw, rws, cb,
          f, destination_save_path, pf, fs, dirs, mv>>

rw_unused ==
    /\ files = <<>> /\ bufs = <<>> /\ piece = 0 /\ offset = 0
    /\ rw = rw_idle /\ rws = rw_idle

mv_unused ==
    /\ f = <<>> /\ destination_save_path = <<>> /\ pf = <<>>
    /\ fs = <<>> /\ dirs = {} /\ mv = mv_idle

InitRW ==
    /\ files \in Layouts
    /\ bufs = <<>> /\ piece = 0 /\ offset = 0
    /\ rw = rw_idle /\ rws = rw_idle
    /\ cb = cb_idle
    /\ mv_unused

NextRW == Enter \/ Iterate

\* readwritev: one call on any layout, any valid request, any file_op
SpecRW == InitRW /\ [][NextRW]_vars

InitBufs ==
    /\ rw_unused
    /\ mv_unused
    /\ \E B \in SliceLists :
        \E n \in 1..bufs_size(B) :
            cb = [pc |-> "start", B |-> B, n |-> n, take |-> <<>>, rest |-> <<>>]

NextBufs == Take \/ Advance

\* copy_bufs then advance_bufs on any buffer list B and 0 < n <= bufs_size(B)
SpecBufs == InitBufs /\ [][NextBufs]_vars

\* the file system a call of move_storage can find: of the files with a
\* relative path, those of srcs are under save_path and those of dsts under
\* the destination; every file with an absolute path is where it is
FileSystem(l, new_save_path, srcs, dsts) ==
    LET paths == {old_path_of(l, i) : i \in FileIndices}
                 \cup {new_path_of(l, new_save_path, i) : i \in FileIndices}
                 \cup {files_file_path(l, i) :
                        i \in {j \in FileIndices : files_file_absolute_path(l, j)}}
    IN  [p \in paths |->
            IF \E i \in FileIndices :
                  files_file_absolute_path(l, i) /\ p = files_file_path(l, i)
            THEN <<"abs", CHOOSE i \in FileIndices : p = files_file_path(l, i)>>
            ELSE IF \E i \in srcs : p = old_path_of(l, i)
            THEN <<"src", CHOOSE i \in srcs : p = old_path_of(l, i)>>
            ELSE IF \E i \in dsts : p = new_path_of(l, new_save_path, i)
            THEN <<"dst", CHOOSE i \in dsts : p = new_path_of(l, new_save_path, i)>>
            ELSE NoFile]

\* the layouts: each file's path is relative or absolute
MoveLayouts ==
    {[k \in 1..NumMoveFiles |->
        IF (k - 1) \in abs THEN AbsolutePath(k - 1) ELSE RelativePath(k - 1)] :
     abs \in SUBSET FileIndices}

InitMove ==
    /\ rw_unused
    /\ cb = cb_idle
    /\ f \in MoveLayouts
    /\ destination_save_path \in {<<"/", "dst">>, <<"dst">>}
    /\ pf \in {<<>>, save_path}
    /\ \E srcs \in SUBSET {i \in FileIndices : ~files_file_absolute_path(f, i)},
          dsts \in SUBSET {i \in FileIndices : ~files_file_absolute_path(f, i)},
          root \in BOOLEAN :
        /\ dsts # {} => root
        /\ fs = FileSystem(f, complete(destination_save_path), srcs, dsts)
        /\ dirs = {<<"/">>, current_working_directory, save_path}
                  \cup UNION {Ancestors(old_path_of(f, i)) : i \in srcs}
                  \cup UNION {Ancestors(files_file_path(f, i)) :
                        i \in {j \in FileIndices : files_file_absolute_path(f, j)}}
                  \cup (IF root
                        THEN {complete(destination_save_path)}
                             \cup Ancestors(complete(destination_save_path))
                        ELSE {})
    /\ mv = mv_idle

NextMove ==
    \/ Call \/ EnsureDirectory \/ MoveFile \/ MovePartfile
    \/ Rollback \/ Cleanup \/ Prune

\* move_storage: one call on any layout, file system, destination and policy
SpecMove == InitMove /\ [][NextMove]_vars

\* ---------------------------------------------------------------- readwritev
\* what the claims are stated over

\* the global offset the request starts at (line 111)
TorrentOffset == piece * PieceLength + offset

\* the global offset a file_op call starts at
GlobalStart(l, c) == files_file_offset(l, c.file_index) + c.file_offset

\* every file_op call so far transferred exactly what it was asked for
FullTransfers(st) ==
    \A k \in 1..Len(st.calls) : st.calls[k].transferred = st.calls[k].bytes

\* the bytes the file_op calls before call k transferred
RECURSIVE TransferredBefore(_, _)
TransferredBefore(calls, k) ==
    IF k <= 1 THEN 0
    ELSE calls[k - 1].transferred + TransferredBefore(calls, k - 1)

RequestInRange == TorrentOffset + rw.size <= files_total_size(files)

\* C1: a request inside the layout's virtual size, every file_op transferring
\* all it is asked for: readwritev returns the total buffer length, and the
\* file_op calls cover [TorrentOffset, TorrentOffset + size) contiguously, in
\* increasing order, each inside its file, their byte counts summing to size.
C1_FullRequestCovered ==
    (rw.pc = "done" /\ FullTransfers(rw) /\ RequestInRange) =>
        /\ rw.ret = rw.size
        /\ Len(rw.calls) >= 1
        /\ GlobalStart(files, rw.calls[1]) = TorrentOffset
        /\ \A k \in 1..Len(rw.calls) :
            LET c == rw.calls[k] IN
            /\ c.file_index >= 0 /\ c.file_index < files_end_file(files)
            /\ c.bytes > 0 /\ c.file_offset >= 0
            /\ c.file_offset + c.bytes <= files_file_size(files, c.file_index)
            /\ bufs_size(c.tmp_buf) = c.bytes
            /\ k < Len(rw.calls) =>
                GlobalStart(files, rw.calls[k + 1])
                    = GlobalStart(files, c) + c.bytes
        /\ TransferredBefore(rw.calls, Len(rw.calls) + 1) = rw.size

\* a full request that took file_op calls on two files with a zero-length
\* file between them
C1_Witness ==
    /\ rw.pc = "done" /\ FullTransfers(rw) /\ RequestInRange
    /\ rw.ret = rw.size
    /\ \E k \in 1..(Len(rw.calls) - 1) :
        rw.calls[k + 1].file_index >= rw.calls[k].file_index + 2

\* C2 (as claimed): buffers totalling more than remains of the virtual
\* address space, every file_op transferring all it is asked for: no file_op
\* call has a file index past the last file, and readwritev returns the bytes
\* actually transferred, strictly fewer than requested.
C2_ShortCountPastEnd ==
    (rw.pc = "done" /\ FullTransfers(rw) /\ ~RequestInRange) =>
        /\ \A k \in 1..Len(rw.calls) :
            rw.calls[k].file_index < files_end_file(files)
        /\ rw.ret = TransferredBefore(rw.calls, Len(rw.calls) + 1)
        /\ rw.ret < rw.size

\* C3: zero-length files are skipped: the call on the layout without them
\* returns the same value after the same file_op calls (file indices
\* renumbered), and no file_op call is on a zero-length file.
C3_EmptyFilesSkipped ==
    /\ \A k \in 1..Len(rw.calls) :
        files_file_size(files, rw.calls[k].file_index) > 0
    /\ rws.pc = rw.pc
    /\ rws.ret = rw.ret
    /\ rws.ec.ec = rw.ec.ec
    /\ rws.bytes_left = rw.bytes_left
    /\ Len(rws.calls) = Len(rw.calls)
    /\ \A k \in 1..Len(rw.calls) :
        rws.calls[k]
            = [rw.calls[k] EXCEPT !.file_index = Renumber(files, @)]

\* a finished call whose request spanned a zero-length file
C3_Witness ==
    /\ rw.pc = "done" /\ rw.ret = rw.size
    /\ \E k \in 1..(Len(rw.calls) - 1) :
        /\ rw.calls[k + 1].file_index = rw.calls[k].file_index + 2
        /\ files_file_size(files, rw.calls[k].file_index + 1) = 0
        /\ rws.calls[k + 1].file_index = rws.calls[k].file_index + 1

\* C4: a file_op call that reports an error is the last one, and readwritev
\* returns -1 whatever the earlier calls transferred.
C4_ErrorAborts ==
    \A k \in 1..Len(rw.calls) :
        rw.calls[k].transferred = -1 =>
            /\ k = Len(rw.calls)
            /\ rw.pc = "done"
            /\ rw.ret = -1

\* an error after an earlier call transferred bytes
C4_Witness ==
    /\ Len(rw.calls) >= 2
    /\ rw.calls[1].transferred > 0
    /\ rw.calls[Len(rw.calls)].transferred = -1
    /\ rw.pc = "done"

\* C5: a file_op call that transfers 0 bytes without error, bytes having
\* been requested, is the last one; readwritev returns the bytes the calls
\* before it transferred (the size less the bytes still owed), the error
\* carrier holds that file's index and no error code.
C5_ZeroTransferStops ==
    \A k \in 1..Len(rw.calls) :
        (rw.calls[k].transferred = 0 /\ rw.calls[k].bytes > 0) =>
            /\ k = Len(rw.calls)
            /\ rw.pc = "done"
            /\ rw.ret = TransferredBefore(rw.calls, k)
            /\ rw.ret = rw.size - rw.bytes_left
            /\ rw.ec.file = rw.calls[k].file_index
            /\ rw.ec.ec = FALSE

\* a zero transfer on a later file than the first, after bytes were moved
C5_Witness ==
    /\ Len(rw.calls) >= 2
    /\ rw.calls[Len(rw.calls)].transferred = 0
    /\ rw.calls[Len(rw.calls)].file_index > rw.calls[1].file_index
    /\ rw.pc = "done" /\ rw.ret > 0

\* C6: for 0 < n <= bufs_size(B), copy_bufs(B, n) totals exactly n bytes, and
\* its bytes followed by those of advance_bufs(B, n) are B's bytes, in order.
C6_TakeAdvancePartition ==
    /\ cb.pc \in {"taken", "advanced"} => bufs_size(cb.take) = cb.n
    /\ cb.pc = "advanced" =>
        /\ BytesOf(cb.take) \o BytesOf(cb.rest) = BytesOf(cb.B)
        /\ Len(BytesOf(cb.take)) = cb.n

\* a cut inside an element that is neither the first nor the last
C6_Witness ==
    /\ cb.pc = "advanced"
    /\ Len(cb.take) = 2 /\ Len(cb.rest) = 2
    /\ cb.take[2].iov_len > 0 /\ cb.rest[1].iov_len > 0
    /\ cb.rest[2].iov_len > 0

\* -------------------------------------------------------------- move_storage
\* what the claims are stated over

\* the files of the layout that move_storage relocates
Relocatable == {i \in FileIndices : ~files_file_absolute_path(f, i)}

OldPath(i) == old_path_of(f, i)

NewPath(i) == new_path_of(f, mv.new_save_path, i)

\* the destination root existed when move_storage was called
DestinationExisted == path_exists(mv.fs0, mv.dirs0, mv.new_save_path)

\* the destination counterpart of file i existed when move_storage was called
CounterpartExisted(i) == mv.fs0[NewPath(i)] # NoFile

\* the primitive calls of the log that are about file i
OpsOn(i, kinds) ==
    {k \in 1..Len(mv.ops) : mv.ops[k].file = i /\ mv.ops[k].op \in kinds}

\* the forward pass called move_file for file i and it answered err
RenameAnswered(i, err) ==
    \E k \in 1..Len(mv.ops) :
        /\ mv.ops[k].phase = "move" /\ mv.ops[k].op = "rename"
        /\ mv.ops[k].file = i /\ mv.ops[k].err = err

Succeeded == mv.status \in {"no_error", "need_full_check"}

\* C7: the default policy, a destination that does not exist, no primitive
\* failing: on return every relocatable file that was at the source is at the
\* destination and not at the source, the status is no_error and the path
\* returned is the destination resolved against the working directory.
C7_MoveToNewDestination ==
    (/\ mv.pc = "done" /\ mv.flags = "always_replace_files"
     /\ mv.faults = 0 /\ ~DestinationExisted) =>
        /\ mv.status = "no_error"
        /\ is_complete(mv.path)
        /\ mv.path = IF is_complete(destination_save_path)
                     THEN destination_save_path
                     ELSE current_working_directory \o destination_save_path
        /\ \A i \in Relocatable :
            mv.fs0[OldPath(i)] # NoFile =>
                /\ fs[combine_path(mv.path, files_file_path(f, i))]
                        = mv.fs0[OldPath(i)]
                /\ fs[OldPath(i)] = NoFile

\* three relocatable files, all at the source, moved to a relative
\* destination that did not exist
C7_Witness ==
    /\ mv.pc = "done" /\ mv.flags = "always_replace_files"
    /\ mv.faults = 0 /\ ~DestinationExisted
    /\ ~is_complete(destination_save_path)
    /\ Cardinality(Relocatable) >= 3
    /\ \A i \in Relocatable :
        mv.fs0[OldPath(i)] # NoFile /\ fs[NewPath(i)] = mv.fs0[OldPath(i)]
    /\ mv.status = "no_error"

\* C8: under fail_if_exist, the destination root existing and a relocatable
\* file existing under it, move_storage returns file_exist with the original
\* save path, having called nothing but stat: the files, the directories and
\* the part file are as they were.
C8_FailIfExistTouchesNothing ==
    (/\ mv.pc # "idle" /\ mv.flags = "fail_if_exist"
     /\ DestinationExisted
     /\ \E i \in Relocatable : CounterpartExisted(i)) =>
        /\ mv.pc = "done"
        /\ mv.status = "file_exist"
        /\ mv.path = save_path
        /\ fs = mv.fs0 /\ dirs = mv.dirs0 /\ pf = mv.pf0
        /\ \A k \in 1..Len(mv.ops) : mv.ops[k].op = "stat"

\* the file found is not the first one, and there are files at the source
C8_Witness ==
    /\ mv.pc = "done" /\ mv.status = "file_exist"
    /\ mv.ec.file > 0
    /\ 0 \in Relocatable /\ mv.fs0[OldPath(0)] # NoFile
    /\ pf # <<>>
    /\ \E i \in Relocatable : CounterpartExisted(i) /\ mv.fs0[OldPath(i)] # NoFile

\* C9: under dont_replace, no primitive failing: a file whose destination
\* counterpart existed is not renamed, copied or removed and stays at the
\* source, its counterpart unchanged; every other relocatable file is at the
\* destination and not at the source; the status is need_full_check if some
\* file was skipped so, and no_error otherwise.
C9_DontReplaceSkipsExisting ==
    (mv.pc = "done" /\ mv.flags = "dont_replace" /\ mv.faults = 0) =>
        /\ \A i \in Relocatable :
            IF CounterpartExisted(i)
            THEN /\ fs[OldPath(i)] = mv.fs0[OldPath(i)]
                 /\ fs[NewPath(i)] = mv.fs0[NewPath(i)]
                 /\ OpsOn(i, {"rename", "copy", "remove"}) = {}
            ELSE /\ fs[NewPath(i)] = mv.fs0[OldPath(i)]
                 /\ fs[OldPath(i)] = NoFile
        /\ mv.status = IF \E i \in Relocatable : CounterpartExisted(i)
                       THEN "need_full_check" ELSE "no_error"
        /\ mv.path = mv.new_save_path

\* one file skipped with its source still there, another moved
C9_Witness ==
    /\ mv.pc = "done" /\ mv.flags = "dont_replace" /\ mv.faults = 0
    /\ mv.status = "need_full_check"
    /\ \E i, j \in Relocatable :
        /\ CounterpartExisted(i) /\ mv.fs0[OldPath(i)] # NoFile
        /\ fs[OldPath(i)] = <<"src", i>> /\ fs[NewPath(i)] = <<"dst", i>>
        /\ ~CounterpartExisted(j) /\ fs[NewPath(j)] = <<"src", j>>

\* C10 (as claimed): the rename of one file failing with invalid_argument,
\* nothing else failing: that file is copied and the relocation succeeds.
C10_InvalidArgumentIsCopied ==
    \A i \in FileIndices :
        (mv.pc = "done" /\ mv.faults = 1
         /\ RenameAnswered(i, "invalid_argument")) =>
            /\ Succeeded
            /\ mv.copied_files[i]
            /\ fs[NewPath(i)] = mv.fs0[OldPath(i)]

\* file i has been copied and the cleanup has not reached it yet
BeforeCleanupOf(i) ==
    mv.pc \in {"move", "partfile"} \/ (mv.pc = "cleanup" /\ mv.i <= i)

\* C10 (amended): the rename of one file failing with an error that is not
\* no_such_file, invalid_argument or permission_denied, nothing else
\* failing: that file alone is copied, it is at the source and at the
\* destination until the cleanup removes the source copy, and the relocation
\* succeeds. A rename failing with invalid_argument is not copied: the call
\* returns fatal_disk_error.
C10_OtherErrorIsCopied ==
    \A i \in FileIndices :
        /\ (mv.faults = 1 /\ RenameAnswered(i, "cross_device")) =>
            /\ \A j \in FileIndices : mv.copied_files[j] <=> j = i
            /\ \A j \in FileIndices :
                Cardinality(OpsOn(j, {"copy"})) = IF j = i THEN 1 ELSE 0
            /\ mv.pc # "rollback"
            /\ mv.fs0[OldPath(i)] # NoFile
            /\ fs[NewPath(i)] = mv.fs0[OldPath(i)]
            /\ fs[OldPath(i)] = IF BeforeCleanupOf(i) THEN mv.fs0[OldPath(i)]
                                ELSE NoFile
            /\ mv.pc = "done" => Succeeded /\ mv.path = mv.new_save_path
        /\ (mv.faults = 1 /\ RenameAnswered(i, "invalid_argument")) =>
            /\ OpsOn(i, {"copy"}) = {}
            /\ ~mv.copied_files[i]
            /\ mv.pc \in {"partfile", "rollback", "done"}
            /\ mv.pc = "done" =>
                mv.status = "fatal_disk_error" /\ mv.path = save_path

\* a copied file between two renamed ones, after the return
C10_Witness ==
    /\ mv.pc = "done" /\ mv.faults = 1 /\ Succeeded
    /\ RenameAnswered(1, "cross_device")
    /\ RenameAnswered(0, "ok") /\ RenameAnswered(2, "ok")
    /\ fs[OldPath(1)] = NoFile /\ fs[NewPath(1)] = <<"src", 1>>

\* the move_file calls of the rollback, in the order they were made
RollbackOps == SelectSeq(mv.ops, LAMBDA o : o.phase = "rollback")

\* every move_file of the rollback succeeded
RollbackSucceeded == \A n \in 1..Len(RollbackOps) : RollbackOps[n].err = "ok"

\* the forward pass failed on file k, files 0..k-1 having been renamed
FailedAfterRenames(k) ==
    /\ mv.ec.operation = "rename" /\ mv.ec.file = k
    /\ \A j \in 0..(k - 1) : RenameAnswered(j, "ok")

\* C11: the relocation of file k failing after files 0..k-1 were renamed,
\* and the renames of the rollback succeeding: the rollback renames files
\* k-1 down to 0 back, in that order; on return every file is at the source
\* as it was, none of them is at the destination, the status is
\* fatal_disk_error, the path is the original save path and the error
\* carrier holds file k, the rename tag and the error.
C11_FailureRollsBack ==
    \A k \in FileIndices :
        (mv.pc = "done" /\ FailedAfterRenames(k) /\ RollbackSucceeded) =>
            /\ mv.status = "fatal_disk_error"
            /\ mv.path = save_path
            /\ mv.ec.ec \notin {"ok", "no_such_file_or_directory"}
            /\ Len(RollbackOps) = k
            /\ \A n \in 1..k :
                /\ RollbackOps[n].file = k - n
                /\ RollbackOps[n].from = NewPath(k - n)
                /\ RollbackOps[n].to = OldPath(k - n)
            /\ \A j \in Relocatable :
                /\ fs[OldPath(j)] = mv.fs0[OldPath(j)]
                /\ fs[NewPath(j)] = IF j < k THEN NoFile ELSE mv.fs0[NewPath(j)]

\* the third file fails after two renames, one of them over a file that was
\* at the destination
C11_Witness ==
    /\ mv.pc = "done" /\ FailedAfterRenames(2) /\ RollbackSucceeded
    /\ Len(RollbackOps) = 2
    /\ CounterpartExisted(0)
    /\ fs[OldPath(0)] = <<"src", 0>> /\ fs[OldPath(1)] = <<"src", 1>>
    /\ fs[OldPath(2)] = <<"src", 2>>

\* the forward pass processed file i without error before the log's entry k:
\* it skipped the file, renamed it, found no source file, or copied it
ProcessedBefore(i, k) ==
    \E n \in 1..(k - 1) :
        /\ mv.ops[n].phase = "move" /\ mv.ops[n].file = i
        /\ \/ mv.ops[n].op = "exists" /\ mv.ops[n].err = "ok"
           \/ mv.ops[n].op = "rename"
              /\ mv.ops[n].err \in {"ok", "no_such_file_or_directory"}
           \/ mv.ops[n].op = "copy" /\ mv.ops[n].err = "ok"

\* the forward pass failed on some file before the log's entry k
FailedBefore(k) ==
    \E n \in 1..(k - 1) :
        /\ mv.ops[n].phase = "move"
        /\ \/ mv.ops[n].op = "rename"
              /\ mv.ops[n].err \in {"invalid_argument", "permission_denied"}
           \/ mv.ops[n].op = "copy" /\ mv.ops[n].err # "ok"

\* C12: move_partfile is called at most once, after every relocatable file
\* was processed without error, never after a file failed and with no file
\* processed after it. If it fails, the rollback calls move_file once for
\* every file that was renamed, from the last index down, and each such file
\* whose rollback rename succeeds is at the source again; the status is
\* fatal_disk_error, the path the original save path, and the error carrier
\* holds file -1 and the partfile_move tag.
C12_PartfileLastAndRolledBack ==
    /\ \A k \in 1..Len(mv.ops) :
        mv.ops[k].op = "move_partfile" =>
            /\ mv.pf0 # <<>>
            /\ \A i \in Relocatable : ProcessedBefore(i, k)
            /\ ~FailedBefore(k)
            /\ \A n \in 1..Len(mv.ops) :
                /\ mv.ops[n].phase = "move" => n < k
                /\ mv.ops[n].op = "move_partfile" => n = k
            /\ mv.ops[k].err = "ok" => mv.ec.operation \notin {"rename", "partfile_move"}
    /\ (mv.pc = "done" /\ mv.ec.operation = "partfile_move") =>
        /\ mv.status = "fatal_disk_error"
        /\ mv.path = save_path
        /\ mv.ec.file = -1
        /\ mv.ec.ec # "ok"
        /\ pf = mv.pf0
        /\ \A n \in 1..(Len(RollbackOps) - 1) :
            RollbackOps[n].file > RollbackOps[n + 1].file
        /\ \A i \in Relocatable :
            RenameAnswered(i, "ok") =>
                /\ Cardinality({n \in 1..Len(RollbackOps) :
                                    RollbackOps[n].file = i}) = 1
                /\ \A n \in 1..Len(RollbackOps) :
                    (RollbackOps[n].file = i /\ RollbackOps[n].err = "ok") =>
                        /\ fs[OldPath(i)] = mv.fs0[OldPath(i)]
                        /\ fs[NewPath(i)] = NoFile

\* the part file fails to move after three files were renamed, and the
\* three are back at the source
C12_Witness ==
    /\ mv.pc = "done" /\ mv.ec.operation = "partfile_move"
    /\ \A i \in FileIndices : RenameAnswered(i, "ok")
    /\ Len(RollbackOps) = 3 /\ RollbackSucceeded
    /\ RollbackOps[1].file = 2 /\ RollbackOps[3].file = 0
    /\ \A i \in FileIndices : fs[OldPath(i)] = <<"src", i>>

\* the log's entries of copy_file calls for file i
CopiesOf(i) == OpsOn(i, {"copy"})

\* the loop over the files was left on file i with error err
AbortedOn(i, err) ==
    /\ mv.ec = [ec |-> err, file |-> i, operation |-> "rename"]
    /\ mv.pc \in {"partfile", "rollback", "done"}
    /\ \A n \in 1..Len(mv.ops) : mv.ops[n].phase = "move" => mv.ops[n].file <= i

\* C13: what the loop does with the answer of move_file for file i:
\* no_such_file is a success with no copy; invalid_argument and
\* permission_denied leave the loop with no copy; any other error is followed
\* by exactly one copy_file of that file, which marks the file copied if it
\* succeeds and leaves the loop if it fails. A file is marked copied only so.
C13_PerFileDecision ==
    /\ \A n \in 1..Len(mv.ops) :
        (mv.ops[n].phase = "move" /\ mv.ops[n].op = "rename") =>
            LET i == mv.ops[n].file
                err == mv.ops[n].err
            IN  CASE err \in {"ok", "no_such_file_or_directory"} ->
                        /\ CopiesOf(i) = {}
                        /\ ~mv.copied_files[i]
                        /\ ~(mv.ec.operation = "rename" /\ mv.ec.file = i)
                        /\ (mv.pc = "move" => mv.i > i)
                  [] err \in {"invalid_argument", "permission_denied"} ->
                        /\ CopiesOf(i) = {}
                        /\ ~mv.copied_files[i]
                        /\ AbortedOn(i, err)
                  [] OTHER ->
                        /\ CopiesOf(i) = {n + 1}
                        /\ mv.ops[n + 1].from = OldPath(i)
                        /\ mv.ops[n + 1].to = NewPath(i)
                        /\ mv.copied_files[i] <=> mv.ops[n + 1].err = "ok"
                        /\ IF mv.ops[n + 1].err = "ok"
                           THEN ~(mv.ec.operation = "rename" /\ mv.ec.file = i)
                           ELSE AbortedOn(i, mv.ops[n + 1].err)
    /\ \A i \in FileIndices :
        mv.copied_files[i] =>
            \E n \in CopiesOf(i) : mv.ops[n].err = "ok" /\ n > 1
                /\ mv.ops[n - 1].op = "rename" /\ mv.ops[n - 1].file = i

\* one call that met the three decisions: file 0 had no source file, file 1
\* was copied after a cross-device error, file 2 was refused
C13_Witness ==
    /\ mv.pc = "done"
    /\ RenameAnswered(0, "no_such_file_or_directory")
    /\ RenameAnswered(1, "cross_device") /\ mv.copied_files[1]
    /\ RenameAnswered(2, "permission_denied")
    /\ CopiesOf(0) = {} /\ CopiesOf(2) = {}
    /\ mv.ec.file = 2

\* the log's entries of remove calls on the source file of file i
RemovesOf(i) == OpsOn(i, {"remove"})

\* C14: the source file of a copied file is removed by the cleanup only:
\* after the whole forward pass and the part file, none of them having
\* failed. A call that returns fatal_disk_error has removed nothing, the
\* source files of the copied files are as they were and the rollback made
\* no call for them. A call that succeeds has called remove once for every
\* copied file, whose source file is gone if that remove succeeded, and for
\* no file that was renamed or skipped.
C14_OriginalsRemovedAtCleanup ==
    /\ \A i \in FileIndices : \A k \in RemovesOf(i) :
        /\ mv.ops[k].phase = "cleanup" /\ mv.ops[k].from = OldPath(i)
        /\ mv.copied_files[i]
        /\ ~FailedBefore(k)
        /\ mv.ec.operation \notin {"rename", "partfile_move"}
        /\ \A j \in Relocatable : ProcessedBefore(j, k)
        /\ \A n \in 1..Len(mv.ops) :
            mv.ops[n].phase \in {"move", "partfile"} => n < k
        /\ mv.pf0 # <<>> => pf = mv.new_save_path
    /\ (mv.pc = "done" /\ mv.status = "fatal_disk_error") =>
        \A i \in FileIndices :
            /\ RemovesOf(i) = {}
            /\ mv.copied_files[i] =>
                /\ fs[OldPath(i)] = mv.fs0[OldPath(i)]
                /\ fs[OldPath(i)] # NoFile
                /\ \A n \in 1..Len(RollbackOps) : RollbackOps[n].file # i
    /\ (mv.pc = "done" /\ Succeeded) =>
        \A i \in FileIndices :
            IF mv.copied_files[i]
            THEN /\ Cardinality(RemovesOf(i)) = 1
                 /\ \A k \in RemovesOf(i) :
                        mv.ops[k].err = "ok" => fs[OldPath(i)] = NoFile
            ELSE RemovesOf(i) = {}

\* a successful call under dont_replace that skipped file 0, copied file 1
\* and renamed file 2: only file 1's source file was removed
C14_Witness ==
    /\ mv.pc = "done" /\ Succeeded /\ mv.flags = "dont_replace"
    /\ CounterpartExisted(0) /\ fs[OldPath(0)] = <<"src", 0>>
    /\ mv.copied_files[1] /\ RemovesOf(1) # {} /\ fs[OldPath(1)] = NoFile
    /\ fs[NewPath(1)] = <<"src", 1>>
    /\ RenameAnswered(2, "ok") /\ RemovesOf(2) = {} /\ RemovesOf(0) = {}

\* the remove calls of the pruning, in the order they were made
PruneOps == SelectSeq(mv.ops, LAMBDA o : o.phase = "prune")

\* the directories under save_path that hold a relocatable file
ParentDirectories ==
    {combine_path(save_path, parent_path(files_file_path(f, i))) :
        i \in {j \in Relocatable : has_parent_path(files_file_path(f, j))}}

StrictlyBelow(root, d) == IsPrefix(root, d) /\ d # root

AbsoluteFiles == {i \in FileIndices : files_file_absolute_path(f, i)}

\* the paths a primitive would be called with if it were called for file i
PathsOf(i) == {files_file_path(f, i), OldPath(i), NewPath(i)}

\* C16: a file with an absolute path is never touched: in no phase is a
\* primitive called for it or on one of its paths, it is never marked copied,
\* its directory is not among those to prune, and the file and its directory
\* are where they were.
C16_AbsoluteFilesUntouched ==
    \A i \in AbsoluteFiles :
        /\ \A n \in 1..Len(mv.ops) :
            /\ mv.ops[n].file # i
            /\ mv.ops[n].from \notin PathsOf(i)
            /\ mv.ops[n].to \notin PathsOf(i)
            /\ ~IsPrefix(parent_path(files_file_path(f, i)), mv.ops[n].from)
        /\ ~mv.copied_files[i]
        /\ parent_path(files_file_path(f, i)) \notin mv.subdirs
        /\ fs[files_file_path(f, i)] = <<"abs", i>>
        /\ fs[OldPath(i)] = NoFile
        /\ mv.pc # "idle" => fs[NewPath(i)] = NoFile
        /\ parent_path(files_file_path(f, i)) \in dirs

\* a rollback that passed over an absolute file between two relocatable
\* ones, after the forward pass and the check of fail_if_exist had
AbsoluteBetween ==
    /\ AbsoluteFiles = {1}
    /\ mv.pc = "done"
    /\ fs[AbsolutePath(1)] = <<"abs", 1>>

C16_Witness ==
    /\ AbsoluteBetween
    /\ mv.flags = "fail_if_exist" /\ DestinationExisted
    /\ mv.status = "fatal_disk_error" /\ mv.ec.file = 2
    /\ RenameAnswered(0, "ok") /\ Len(RollbackOps) = 1

\* the forward pass neither renamed nor copied file i: it skipped it, found
\* no source file, failed on it or never reached it
NotRelocated(i) == ~RenameAnswered(i, "ok") /\ CopiesOf(i) = {}

\* C19 (as claimed): a call that returns fatal_disk_error leaves every file
\* the forward pass did not relocate as it was: a destination file that was
\* there before the call is still there with its content, and the source
\* file, or its absence, is as before.
C19_RollbackTouchesOnlyRenamed ==
    (mv.pc = "done" /\ mv.status = "fatal_disk_error") =>
        \A i \in Relocatable :
            NotRelocated(i) =>
                /\ fs[NewPath(i)] = mv.fs0[NewPath(i)]
                /\ fs[OldPath(i)] = mv.fs0[OldPath(i)]

\* ---------------------------------------------------- readwritev, continued

\* buffer b lies inside one of the caller's buffers
InsideCallerBuffer(b) ==
    \E n \in 1..Len(bufs) :
        /\ b.iov_base >= bufs[n].iov_base
        /\ b.iov_base + b.iov_len <= bufs[n].iov_base + bufs[n].iov_len

\* C17: every file_op call is within bounds: its file is a file of the
\* layout, its offset is inside that file, its byte count is positive and is
\* the smaller of the bytes still owed and the bytes from the offset to the
\* end of the file; its buffer list has no more elements than the caller's,
\* totals exactly that count, and references exactly the caller's bytes that
\* follow those already transferred, each element inside a caller's buffer.
C17_FileOpWithinBounds ==
    \A k \in 1..Len(rw.calls) :
        LET c == rw.calls[k]
            done == TransferredBefore(rw.calls, k)
            owed == rw.size - done
        IN  /\ c.file_index >= 0 /\ c.file_index < files_end_file(files)
            /\ c.file_offset >= 0
            /\ c.bytes > 0
            /\ c.bytes = Min(owed, files_file_size(files, c.file_index)
                                        - c.file_offset)
            /\ c.transferred <= c.bytes
            /\ Len(c.tmp_buf) <= Len(bufs)
            /\ bufs_size(c.tmp_buf) = c.bytes
            /\ BytesOf(c.tmp_buf)
                    = SubSeq(BytesOf(bufs), done + 1, done + c.bytes)
            /\ \A n \in 1..Len(c.tmp_buf) : InsideCallerBuffer(c.tmp_buf[n])

\* a call that took bytes of two of the caller's buffers and transferred
\* some of them, and the call that followed it
C17_Witness ==
    /\ Len(rw.calls) >= 3
    /\ Len(rw.calls[2].tmp_buf) = 2
    /\ rw.calls[2].tmp_buf[1].iov_len > 0 /\ rw.calls[2].tmp_buf[2].iov_len > 0
    /\ rw.calls[2].transferred = 1 /\ rw.calls[2].bytes = 2
    /\ rw.calls[3].file_index = rw.calls[2].file_index
    /\ rw.calls[3].file_offset = rw.calls[2].file_offset + 1

\* C18 (as claimed): advance_bufs(bufs, n), 0 <= n < the total length, drops
\* every fully consumed leading element, so the cursor of readwritev, while
\* bytes are owed, starts with an element of non-zero length, also when n
\* fell on an element boundary, and no buffer of length zero is passed to
\* file_op.
C18_NoZeroLengthBuffer ==
    /\ rw.pc = "loop" =>
        /\ rw.current_buf # <<>>
        /\ rw.current_buf[1].iov_len > 0
    /\ \A k \in 1..Len(rw.calls) :
        \A n \in 1..Len(rw.calls[k].tmp_buf) :
            rw.calls[k].tmp_buf[n].iov_len > 0

\* one iteration of the loop of readwritev: it returns, or it goes on with
\* strictly fewer bytes owed, on a file that is not before the current one
\* and not past the last; a transfer of some but not all of the bytes asked
\* for is followed by a call on the same file at the advanced offset
IterationProgresses ==
    rw.pc = "loop" =>
        /\ rw.bytes_left > 0
        /\ rw'.pc \in {"loop", "done"}
        /\ rw'.pc = "loop" =>
            /\ rw'.bytes_left < rw.bytes_left /\ rw'.bytes_left > 0
            /\ Len(rw'.calls) = Len(rw.calls) + 1
        /\ rw'.file_index >= rw.file_index
        /\ rw'.file_index <= files_end_file(files)
        /\ Len(rw'.calls) > Len(rw.calls) =>
            LET c == rw'.calls[Len(rw'.calls)]
                skipped == (rw.file_index + 1)..(c.file_index - 1)
            IN  /\ c.file_index < files_end_file(files)
                /\ \A i \in skipped : files_file_size(files, i) = 0
                /\ (c.transferred > 0 /\ c.transferred < c.bytes) =>
                    /\ rw'.pc = "loop"
                    /\ next_file_op(files, rw').file_index = c.file_index
                    /\ next_file_op(files, rw').file_offset
                            = c.file_offset + c.transferred
                    /\ ~next_file_op(files, rw').past_end

\* C20: readwritev terminates whatever the layout, the valid request and the
\* answers of file_op: every iteration of its loop returns or strictly
\* decreases the bytes still owed, which stay positive in the loop, the file
\* index never decreases and never passes the end of the layout, and there
\* are never more file_op calls than bytes requested.
C20_Terminates ==
    /\ [][IterationProgresses]_vars
    /\ [](/\ Len(rw.calls) <= rw.size
          /\ rw.bytes_left >= 0 /\ rw.bytes_left <= rw.size
          /\ rw.pc = "loop" => Len(rw.calls) = 0 \/ Len(rw.calls) < rw.size)

\* a call that returned after as many file_op calls as bytes requested,
\* every transfer being partial where it could be, over a zero-length file
C20_Witness ==
    /\ rw.pc = "done" /\ rw.ret = rw.size /\ rw.size >= 3
    /\ Len(rw.calls) = rw.size
    /\ \E k \in 1..(Len(rw.calls) - 1) :
        /\ rw.calls[k].transferred < rw.calls[k].bytes
        /\ rw.calls[k + 1].file_index = rw.calls[k].file_index
    /\ \E i \in 0..(files_end_file(files) - 1) :
        /\ files_file_size(files, i) = 0
        /\ i > rw.calls[1].file_index /\ i < rw.calls[Len(rw.calls)].file_index

====
